---------------------------- MODULE Spec2Model ----------------------------
(***************************************************************************)
(* Model of arch/arm/mm/mmap.c: the ARM policy layer that picks the mmap   *)
(* layout of a process (arch_pick_mmap_layout) and decides where a new     *)
(* mapping goes (arch_get_unmapped_area, arch_get_unmapped_area_topdown).  *)
(*                                                                         *)
(* Addresses are unsigned longs.  The machine is scaled down so that the   *)
(* whole address space can be enumerated: a word has BITS_PER_LONG = 8     *)
(* bits, a page 16 bytes, SHMLBA is four pages as on ARM, TASK_SIZE is     *)
(* eight pages.  All arithmetic wraps modulo 2^BITS_PER_LONG as the C      *)
(* code's does, and error codes are the usual negative errnos stored in    *)
(* an unsigned long.                                                       *)
(***************************************************************************)
EXTENDS Integers, Sequences, FiniteSets, TLC

\* ------------------------------------------------------------------------
\* Machine words and the bit operations the code uses
\* ------------------------------------------------------------------------

BITS_PER_LONG == 8

ULONG_MOD == 2 ^ BITS_PER_LONG

ULONG_MAX == ULONG_MOD - 1

\* An arithmetic result stored in an unsigned long.
UL(x) == x % ULONG_MOD

RECURSIVE BitAnd(_, _)
\* The C operator & on two unsigned longs.
BitAnd(x, y) ==
    IF x = 0 \/ y = 0 THEN 0
    ELSE (x % 2) * (y % 2) + 2 * BitAnd(x \div 2, y \div 2)

\* The C operator ~ on an unsigned long.
BitNot(x) == ULONG_MAX - x

PAGE_SHIFT == 4

PAGE_SIZE == 2 ^ PAGE_SHIFT

PAGE_MASK == BitNot(PAGE_SIZE - 1)

\* PAGE_ALIGN(addr): round up to a page, in unsigned long arithmetic.
PAGE_ALIGN(addr) == BitAnd(UL(addr + PAGE_SIZE - 1), PAGE_MASK)

\* x << PAGE_SHIFT in an unsigned long.
ShiftPage(x) == UL(x * PAGE_SIZE)

SHMLBA == 4 * PAGE_SIZE

TASK_SIZE == 8 * PAGE_SIZE

FIRST_USER_ADDRESS == PAGE_SIZE

\* ALIGN(TASK_SIZE / 3, SZ_16M), the alignment scaled to a page.
TASK_UNMAPPED_BASE == PAGE_ALIGN(TASK_SIZE \div 3)

RLIM_INFINITY == ULONG_MAX

ENOMEM == 12

EINVAL == 22

\* (unsigned long)-errno
ERR(errno) == UL(0 - errno)

\* The guard gap kept below a VM_GROWSDOWN region: one page.
stack_guard_gap == PAGE_SIZE

\* mmap_rnd_bits (8..16 on the real machine): one bit of page-granular entropy.
mmap_rnd_bits == 1

\* ------------------------------------------------------------------------
\* Bounds of the model
\* ------------------------------------------------------------------------

\* The largest number of mapped regions in an address space.
MaxVmas == 1

\* ------------------------------------------------------------------------
\* State
\* ------------------------------------------------------------------------

VARIABLES
    aliasing,                \* cache_is_vipt_aliasing()
    mmap_min_addr,           \* the sysctl floor for user mappings
    vmas,                    \* the regions of current->mm (read only here)
    personality,             \* current->personality, as a set of flag names
    rlim_stack,              \* rlimit(RLIMIT_STACK)
    sysctl_legacy_va_layout, \* the global legacy switch, 0 or 1
    pf_randomize,            \* current->flags & PF_RANDOMIZE
    random_factor,           \* random_factor of the last arch_pick_mmap_layout
    mm_mmap_base,            \* mm->mmap_base
    mm_get_unmapped_area,    \* mm->get_unmapped_area, by name
    pc,                      \* "exec", "ready", "returned"
    req,                     \* arguments of the call that returned
    ret,                     \* its return value
    calls,                   \* its vm_unmapped_area calls: <<[info, result]>>
    klog,                    \* the diagnostic it raised, "" for none
    al                       \* COLOUR_ALIGN applied repeatedly: [pgoff, outs]

vars == <<aliasing, mmap_min_addr, vmas, personality, rlim_stack,
          sysctl_legacy_va_layout, pf_randomize, random_factor, mm_mmap_base,
          mm_get_unmapped_area, pc, req, ret, calls, klog, al>>

envVars == <<aliasing, mmap_min_addr, vmas, personality, rlim_stack,
             sysctl_legacy_va_layout, pf_randomize>>

mmVars == <<random_factor, mm_mmap_base, mm_get_unmapped_area>>

callVars == <<req, ret, calls, klog>>

NoReq == [filp |-> FALSE, addr |-> 0, len |-> 0, pgoff |-> 0, flags |-> {}]

NoAl == [pgoff |-> 0, outs |-> <<>>]

\* ------------------------------------------------------------------------
\* The memory map (mm/mmap.c and include/linux/mm.h, outside this file)
\* ------------------------------------------------------------------------

NULL == [vm_start |-> 0, vm_end |-> 0, vm_flags |-> {}]

\* find_vma(mm, addr): the first region that ends above addr, or NULL.
find_vma(addr) ==
    LET above == {v \in vmas : v.vm_end > addr}
    IN  IF above = {} THEN NULL
        ELSE CHOOSE v \in above : \A w \in above : v.vm_start <= w.vm_start

\* vm_start_gap(vma): the start of the region, lowered by the guard gap when
\* the region grows down.
vm_start_gap(vma) ==
    IF "VM_GROWSDOWN" \in vma.vm_flags
    THEN IF vma.vm_start >= stack_guard_gap
         THEN vma.vm_start - stack_guard_gap
         ELSE 0
    ELSE vma.vm_start

\* [a, a + length) lies in a gap of the map, guard gaps honoured.
FitsGap(a, length) ==
    \A v \in vmas : v.vm_end <= a \/ a + length <= vm_start_gap(v)

PageAddrs == {p * PAGE_SIZE : p \in 0 .. (ULONG_MOD \div PAGE_SIZE) - 1}

\* The addresses vm_unmapped_area may answer with for info.
GapCandidates(info) ==
    {a \in PageAddrs :
        /\ info.low_limit <= a
        /\ a + info.length <= info.high_limit
        /\ BitAnd(UL(a - info.align_offset), info.align_mask) = 0
        /\ FitsGap(a, info.length)}

\* vm_unmapped_area(info): the lowest fitting address, or the highest one
\* under VM_UNMAPPED_AREA_TOPDOWN, or -ENOMEM.
vm_unmapped_area(info) ==
    LET c == GapCandidates(info)
    IN  IF c = {} THEN ERR(ENOMEM)
        ELSE IF "VM_UNMAPPED_AREA_TOPDOWN" \in info.flags
             THEN CHOOSE a \in c : \A b \in c : b <= a
             ELSE CHOOSE a \in c : \A b \in c : a <= b

\* ------------------------------------------------------------------------
\* arch/arm/mm/mmap.c
\* ------------------------------------------------------------------------

Max(a, b) == IF a >= b THEN a ELSE b

\* COLOUR_ALIGN rounding the address down instead of up.
COLOUR_ALIGN_round_down(addr, pgoff) ==
    UL(BitAnd(addr, BitNot(SHMLBA - 1))
       + BitAnd(ShiftPage(pgoff), SHMLBA - 1))

\* COLOUR_ALIGN(addr, pgoff)
COLOUR_ALIGN(addr, pgoff) ==
    UL(BitAnd(UL(addr + SHMLBA - 1), BitNot(SHMLBA - 1))
       + BitAnd(ShiftPage(pgoff), SHMLBA - 1))

MIN_GAP == PAGE_SIZE

MAX_GAP == (TASK_SIZE \div 6) * 5

\* mmap_is_legacy()
mmap_is_legacy ==
    IF "ADDR_COMPAT_LAYOUT" \in personality THEN 1
    ELSE IF rlim_stack = RLIM_INFINITY THEN 1
    ELSE sysctl_legacy_va_layout

\* mmap_base without the upper clamp of the gap.
mmap_base_no_max_gap(rnd) ==
    LET gap0 == rlim_stack
        gap  == IF gap0 < MIN_GAP THEN MIN_GAP ELSE gap0
    IN  PAGE_ALIGN(UL(UL(TASK_SIZE - gap) - rnd))

\* mmap_base(rnd)
mmap_base(rnd) ==
    LET gap0 == rlim_stack
        gap  == IF gap0 < MIN_GAP THEN MIN_GAP
                ELSE IF gap0 > MAX_GAP THEN MAX_GAP
                ELSE gap0
    IN  PAGE_ALIGN(UL(UL(TASK_SIZE - gap) - rnd))

\* arch_mmap_rnd(), given the value get_random_int() returned.
arch_mmap_rnd(random_int) ==
    ShiftPage(BitAnd(random_int, (2 ^ mmap_rnd_bits) - 1))

\* do_align, as both finders compute it.
do_align_of(filp, flags) ==
    IF aliasing THEN filp \/ "MAP_SHARED" \in flags ELSE FALSE

\* The MAP_FIXED branch refusing an address inside a mapped region.
map_fixed_refuses_occupied(addr, pgoff, flags) ==
    IF /\ aliasing
       /\ "MAP_SHARED" \in flags
       /\ BitAnd(UL(addr - ShiftPage(pgoff)), SHMLBA - 1) # 0
    THEN ERR(EINVAL)
    ELSE IF find_vma(addr) # NULL /\ find_vma(addr).vm_start <= addr
    THEN ERR(ENOMEM)
    ELSE addr

\* The MAP_FIXED branch of both finders: -EINVAL or the address.
map_fixed(addr, pgoff, flags) ==
    IF /\ aliasing
       /\ "MAP_SHARED" \in flags
       /\ BitAnd(UL(addr - ShiftPage(pgoff)), SHMLBA - 1) # 0
    THEN ERR(EINVAL)
    ELSE addr

\* The oversize test of both finders.
len_too_big(len) == len > UL(TASK_SIZE - mmap_min_addr)

\* The hint rounded to a page whatever do_align says.
hint_addr_page_only(do_align, addr, pgoff) == PAGE_ALIGN(addr)

\* The hint after alignment.
hint_addr(do_align, addr, pgoff) ==
    IF do_align THEN COLOUR_ALIGN(addr, pgoff) ELSE PAGE_ALIGN(addr)

\* The hint test comparing with vm_start instead of vm_start_gap().
hint_ok_ignores_guard_gap(addr, len) ==
    LET vma == find_vma(addr)
    IN  /\ UL(TASK_SIZE - len) >= addr
        /\ addr >= mmap_min_addr
        /\ (vma = NULL \/ UL(addr + len) <= vma.vm_start)

\* The test that lets the aligned hint be returned at once.
hint_ok(addr, len) ==
    LET vma == find_vma(addr)
    IN  /\ UL(TASK_SIZE - len) >= addr
        /\ addr >= mmap_min_addr
        /\ (vma = NULL \/ UL(addr + len) <= vm_start_gap(vma))

align_mask_of(do_align) ==
    IF do_align THEN BitAnd(PAGE_MASK, SHMLBA - 1) ELSE 0

\* The bottom-up search starting at mmap_base even below mmap_min_addr.
bottomup_info_ignores_min_addr(len, pgoff, do_align) ==
    [flags        |-> {},
     length       |-> len,
     low_limit    |-> mm_mmap_base,
     high_limit   |-> TASK_SIZE,
     align_mask   |-> align_mask_of(do_align),
     align_offset |-> ShiftPage(pgoff)]

\* info of the bottom-up finder's search.
bottomup_info(len, pgoff, do_align) ==
    [flags        |-> {},
     length       |-> len,
     low_limit    |-> Max(mm_mmap_base, mmap_min_addr),
     high_limit   |-> TASK_SIZE,
     align_mask   |-> align_mask_of(do_align),
     align_offset |-> ShiftPage(pgoff)]

\* info of the top-down finder's first search.
topdown_info(len, pgoff, do_align) ==
    [flags        |-> {"VM_UNMAPPED_AREA_TOPDOWN"},
     length       |-> len,
     low_limit    |-> Max(FIRST_USER_ADDRESS, mmap_min_addr),
     high_limit   |-> mm_mmap_base,
     align_mask   |-> align_mask_of(do_align),
     align_offset |-> ShiftPage(pgoff)]

\* The second search made over the first one's range again.
fallback_info_same_range(info) == [info EXCEPT !.flags = {}]

\* info of the top-down finder's second search, made from the first one's.
fallback_info(info) ==
    [info EXCEPT !.flags = {},
                 !.low_limit = mm_mmap_base,
                 !.high_limit = TASK_SIZE]

\* What a call leaves behind: its return value, the searches it made and
\* the diagnostic it tried to print.
Outcome(r, searches, msg) == [ret |-> r, calls |-> searches, msg |-> msg]

Searched(info, result) == [info |-> info, result |-> result]

\* arch_get_unmapped_area(filp, addr, len, pgoff, flags)
arch_get_unmapped_area(filp, addr, len, pgoff, flags) ==
    LET do_align == do_align_of(filp, flags)
        hint     == hint_addr(do_align, addr, pgoff)
        info     == bottomup_info(len, pgoff, do_align)
        found    == vm_unmapped_area(info)
    IN  IF "MAP_FIXED" \in flags
        THEN Outcome(map_fixed(addr, pgoff, flags), <<>>, "")
        ELSE IF len_too_big(len)
        THEN Outcome(ERR(ENOMEM), <<>>, "len")
        ELSE IF addr # 0 /\ hint_ok(hint, len)
        THEN Outcome(hint, <<>>, "")
        ELSE Outcome(found, <<Searched(info, found)>>,
                     IF found = ERR(ENOMEM) THEN "nomem" ELSE "")

\* The top-down finder giving up after its first search.
arch_get_unmapped_area_topdown_no_fallback(filp, addr0, len, pgoff, flags) ==
    LET do_align == do_align_of(filp, flags)
        hint     == hint_addr(do_align, addr0, pgoff)
        info     == topdown_info(len, pgoff, do_align)
        first    == vm_unmapped_area(info)
    IN  IF len_too_big(len)
        THEN Outcome(ERR(ENOMEM), <<>>, "len")
        ELSE IF "MAP_FIXED" \in flags
        THEN Outcome(map_fixed(addr0, pgoff, flags), <<>>, "")
        ELSE IF addr0 # 0 /\ hint_ok(hint, len)
        THEN Outcome(hint, <<>>, "")
        ELSE Outcome(first, <<Searched(info, first)>>,
                     IF first = ERR(ENOMEM) THEN "nomem" ELSE "")

\* arch_get_unmapped_area_topdown(filp, addr0, len, pgoff, flags)
arch_get_unmapped_area_topdown(filp, addr0, len, pgoff, flags) ==
    LET do_align == do_align_of(filp, flags)
        hint     == hint_addr(do_align, addr0, pgoff)
        info     == topdown_info(len, pgoff, do_align)
        first    == vm_unmapped_area(info)
        info2    == fallback_info(info)
        second   == vm_unmapped_area(info2)
    IN  IF len_too_big(len)
        THEN Outcome(ERR(ENOMEM), <<>>, "len")
        ELSE IF "MAP_FIXED" \in flags
        THEN Outcome(map_fixed(addr0, pgoff, flags), <<>>, "")
        ELSE IF addr0 # 0 /\ hint_ok(hint, len)
        THEN Outcome(hint, <<>>, "")
        ELSE IF BitAnd(first, BitNot(PAGE_MASK)) # 0
        THEN Outcome(second,
                     <<Searched(info, first), Searched(info2, second)>>,
                     IF second = ERR(ENOMEM) THEN "nomem" ELSE "")
        ELSE Outcome(first, <<Searched(info, first)>>,
                     IF first = ERR(ENOMEM) THEN "nomem" ELSE "")

\* ------------------------------------------------------------------------
\* Inputs
\* ------------------------------------------------------------------------

Pages(n) == n * PAGE_SIZE

\* Regions start at or above FIRST_USER_ADDRESS and end at or below
\* TASK_SIZE, on page boundaries.
AllVmas ==
    {[vm_start |-> Pages(s), vm_end |-> Pages(e), vm_flags |-> f] :
        s \in 1 .. 8, e \in 1 .. 8, f \in {{}, {"VM_GROWSDOWN"}}}

VmaTop(S) == IF S = {} THEN 0 ELSE CHOOSE t \in {v.vm_end : v \in S} :
                                        \A v \in S : v.vm_end <= t

RECURSIVE VmaSets(_)
\* The region sets of at most n pairwise disjoint regions, built bottom to
\* top.  Only the highest region, the stack, may be VM_GROWSDOWN.
VmaSets(n) ==
    IF n = 0 THEN {{}}
    ELSE LET smaller == VmaSets(n - 1)
         IN  smaller \cup
             UNION {{S \cup {v} : v \in {w \in AllVmas : /\ w.vm_start < w.vm_end
                                                         /\ w.vm_start >= VmaTop(S)}} :
                    S \in {T \in smaller : /\ Cardinality(T) = n - 1
                                           /\ \A u \in T : u.vm_flags = {}}}

\* mmap_min_addr: none, the usual first page, and a floor above the lowest
\* mmap_base a layout can have.
MinAddrs == {0, Pages(1), Pages(4)}

\* get_random_int() values.
RandomInts == 0 .. 3

\* Stack limits: below MIN_GAP, between the clamps (page aligned or not),
\* at and above MAX_GAP, unlimited.
StackLimits == {0, 8, 16, 24, 40, 48, 100, 105, 106, 200, RLIM_INFINITY}

\* The stack limits of the address spaces the finders are run in.
FinderStackLimits == {48, 200, RLIM_INFINITY}

\* Hints and fixed addresses: none, page aligned, inside a page, at
\* mmap_base or beyond, and near the top of the word, where rounding wraps.
Hints == {0, Pages(1), Pages(2) + 1, Pages(5), Pages(15) + 1}

\* Lengths are whole pages, as the callers round them: from one page to one
\* page more than TASK_SIZE.
Lens == {Pages(n) : n \in 1 .. 9}

\* The lengths tried with MAP_FIXED, where only the oversize test reads len.
FixedLens == {Pages(1), Pages(5), Pages(9)}

\* Page offsets of colour 0 and of colour 1 (5 << PAGE_SHIFT exceeds SHMLBA).
Pgoffs == {0, 5}

FlagSets == SUBSET {"MAP_SHARED", "MAP_FIXED"}

Requests ==
    {r \in [filp : BOOLEAN, addr : Hints, len : Lens, pgoff : Pgoffs,
            flags : FlagSets] :
        "MAP_FIXED" \in r.flags => r.len \in FixedLens}

\* ------------------------------------------------------------------------
\* Actions
\* ------------------------------------------------------------------------

\* arch_pick_mmap_layout(mm), at exec.
PickLayout ==
    /\ pc = "exec"
    /\ \E random_int \in RandomInts :
         LET rf == IF pf_randomize THEN arch_mmap_rnd(random_int) ELSE 0
         IN  /\ random_factor' = rf
             /\ IF mmap_is_legacy # 0
                THEN /\ mm_mmap_base' = UL(TASK_UNMAPPED_BASE + rf)
                     /\ mm_get_unmapped_area' = "arch_get_unmapped_area"
                ELSE /\ mm_mmap_base' = mmap_base(rf)
                     /\ mm_get_unmapped_area' = "arch_get_unmapped_area_topdown"
    /\ pc' = "ready"
    /\ UNCHANGED <<envVars, callVars, al>>

\* The call leaves its outcome; klog is the diagnostic it handed to
\* __ratelimit(), which prints it or drops it.
Leave(r, out) ==
    /\ req' = r
    /\ ret' = out.ret
    /\ calls' = out.calls
    /\ klog' = out.msg
    /\ pc' = "returned"
    /\ UNCHANGED <<envVars, mmVars, al>>

\* mm->get_unmapped_area(...) where it is arch_get_unmapped_area.
GetUnmappedArea ==
    /\ pc = "ready"
    /\ mm_get_unmapped_area = "arch_get_unmapped_area"
    /\ \E r \in Requests :
         Leave(r, arch_get_unmapped_area(r.filp, r.addr, r.len, r.pgoff, r.flags))

\* mm->get_unmapped_area(...) where it is arch_get_unmapped_area_topdown.
GetUnmappedAreaTopdown ==
    /\ pc = "ready"
    /\ mm_get_unmapped_area = "arch_get_unmapped_area_topdown"
    /\ \E r \in Requests :
         Leave(r, arch_get_unmapped_area_topdown(r.filp, r.addr, r.len, r.pgoff,
                                                 r.flags))

\* The caller has taken the result; the next request may come.
Return ==
    /\ pc = "returned"
    /\ pc' = "ready"
    /\ req' = NoReq
    /\ ret' = 0
    /\ calls' = <<>>
    /\ klog' = ""
    /\ UNCHANGED <<envVars, mmVars, al>>

InitCommon ==
    /\ random_factor = 0
    /\ mm_mmap_base = 0
    /\ mm_get_unmapped_area = "none"
    /\ pc = "exec"
    /\ req = NoReq
    /\ ret = 0
    /\ calls = <<>>
    /\ klog = ""

\* A process at exec, in any memory map and cache configuration.
Init ==
    /\ InitCommon
    /\ aliasing \in BOOLEAN
    /\ mmap_min_addr \in MinAddrs
    /\ vmas \in VmaSets(MaxVmas)
    /\ personality = {}
    /\ rlim_stack \in FinderStackLimits
    /\ sysctl_legacy_va_layout = 0
    /\ pf_randomize = FALSE
    /\ al = NoAl

Next == PickLayout \/ GetUnmappedArea \/ GetUnmappedAreaTopdown \/ Return

Spec == Init /\ [][Next]_vars

\* ------------------------------------------------------------------------
\* The layout alone: every process attribute, no requests
\* ------------------------------------------------------------------------

InitLayout ==
    /\ InitCommon
    /\ aliasing = FALSE
    /\ mmap_min_addr = Pages(1)
    /\ vmas = {}
    /\ personality \in SUBSET {"ADDR_COMPAT_LAYOUT"}
    /\ rlim_stack \in StackLimits
    /\ sysctl_legacy_va_layout \in {0, 1}
    /\ pf_randomize \in BOOLEAN
    /\ al = NoAl

\* A new exec of the same process: the layout is picked again.
Exec ==
    /\ pc = "ready"
    /\ pc' = "exec"
    /\ random_factor' = 0
    /\ mm_mmap_base' = 0
    /\ mm_get_unmapped_area' = "none"
    /\ UNCHANGED <<envVars, callVars, al>>

NextLayout == PickLayout \/ Exec

SpecLayout == InitLayout /\ [][NextLayout]_vars

\* ------------------------------------------------------------------------
\* COLOUR_ALIGN alone: applied to an address, then to its own result
\* ------------------------------------------------------------------------

AlignPgoffs == 0 .. 5

InitAlign ==
    /\ InitCommon
    /\ aliasing = TRUE
    /\ mmap_min_addr = Pages(1)
    /\ vmas = {}
    /\ personality = {}
    /\ rlim_stack = 48
    /\ sysctl_legacy_va_layout = 0
    /\ pf_randomize = FALSE
    /\ al \in [pgoff : AlignPgoffs, outs : {<<a>> : a \in 0 .. ULONG_MAX}]

ApplyColourAlign ==
    /\ Len(al.outs) < 3
    /\ al' = [al EXCEPT !.outs =
                 Append(@, COLOUR_ALIGN(al.outs[Len(al.outs)], al.pgoff))]
    /\ UNCHANGED <<envVars, mmVars, callVars, pc>>

NextAlign == ApplyColourAlign

SpecAlign == InitAlign /\ [][NextAlign]_vars

\* ------------------------------------------------------------------------
\* Properties
\* ------------------------------------------------------------------------

Returned == pc = "returned"

Fixed == "MAP_FIXED" \in req.flags

Shared == "MAP_SHARED" \in req.flags

BottomUp == mm_get_unmapped_area = "arch_get_unmapped_area"

TopDown == mm_get_unmapped_area = "arch_get_unmapped_area_topdown"

OutOfMemory == ERR(ENOMEM)

InvalidFixedAddress == ERR(EINVAL)

Failure(r) == r \in {OutOfMemory, InvalidFixedAddress}

\* requires_alignment of the request that returned.
NeedsColour == aliasing /\ (req.filp \/ Shared)

\* (page_offset * page_size) mod alignment_unit
Colour(pgoff) == (pgoff * PAGE_SIZE) % SHMLBA

\* (a - page_offset * page_size) mod alignment_unit == 0
Coloured(a) == (a - req.pgoff * PAGE_SIZE) % SHMLBA = 0

Oversize == req.len > TASK_SIZE - mmap_min_addr

RoundUp(x, unit) == ((x + unit - 1) \div unit) * unit

\* The page-aligned starts in [lo, hi) of free spans of the request's length,
\* coloured when the request needs it, guard gaps honoured.
FreeSpans(lo, hi) ==
    {a \in PageAddrs :
        /\ lo <= a
        /\ a + req.len <= hi
        /\ (NeedsColour => Coloured(a))
        /\ \A v \in vmas : v.vm_end <= a \/ a + req.len <= vm_start_gap(v)}

\* The regions that end above a, and the first of them.
RegionsAbove(a) == {v \in vmas : v.vm_end > a}

IsNextRegion(n, a) ==
    n \in RegionsAbove(a) /\ \A v \in RegionsAbove(a) : n.vm_start <= v.vm_start

\* The call that returned, made through the bottom-up finder, through the
\* top-down finder, and through the finder of this address space.
ByBottomUp(addr) ==
    arch_get_unmapped_area(req.filp, addr, req.len, req.pgoff, req.flags)

ByTopDown(addr) ==
    arch_get_unmapped_area_topdown(req.filp, addr, req.len, req.pgoff, req.flags)

ByFinder(addr) == IF TopDown THEN ByTopDown(addr) ELSE ByBottomUp(addr)

\* C1: every address a non-FIXED call returns, by the hint path, the search
\* or the top-down fallback search, is page aligned, at or above
\* mmap_min_addr, ends at or below TASK_SIZE, overlaps no region and ends at
\* or before the guard-gap-adjusted start of the next higher region.
C1_PlacementIsSafe ==
    (Returned /\ ~Fixed /\ ~Failure(ret)) =>
        /\ ret % PAGE_SIZE = 0
        /\ mmap_min_addr <= ret
        /\ ret + req.len <= TASK_SIZE
        /\ \A v \in vmas : v.vm_end <= ret \/ ret + req.len <= v.vm_start
        /\ \A n \in vmas : IsNextRegion(n, ret) => ret + req.len <= vm_start_gap(n)

\* C1, without the floor where the top-down fallback search answered: there
\* the address is at or above mmap_base instead.
C1_SafeButForFallbackFloor ==
    (Returned /\ ~Fixed /\ ~Failure(ret)) =>
        /\ ret % PAGE_SIZE = 0
        /\ IF Len(calls) = 2 THEN mm_mmap_base <= ret ELSE mmap_min_addr <= ret
        /\ ret + req.len <= TASK_SIZE
        /\ \A v \in vmas : v.vm_end <= ret \/ ret + req.len <= v.vm_start
        /\ \A n \in vmas : IsNextRegion(n, ret) => ret + req.len <= vm_start_gap(n)

\* C2 as stated: a top-down call with no hint fails with OutOfMemory exactly
\* when [max(FIRST_USER_ADDRESS, mmap_min_addr), TASK_SIZE) holds no free
\* span of the length, spans across mmap_base included.
C2_NoAvoidableOutOfMemory ==
    (Returned /\ TopDown /\ ~Fixed /\ req.addr = 0) =>
        (ret = OutOfMemory <=>
            FreeSpans(Max(FIRST_USER_ADDRESS, mmap_min_addr), TASK_SIZE) = {})

\* C2 amended: a top-down call with no hint fails with OutOfMemory exactly
\* when the length is oversize or neither [max(FIRST_USER_ADDRESS,
\* mmap_min_addr), mmap_base) nor [mmap_base, TASK_SIZE) holds a free span of
\* the length; a span in the lower range is answered from the lower range,
\* and otherwise a span in the upper range from the upper range.
C2_OutOfMemoryIffNeitherRangeFits ==
    (Returned /\ TopDown /\ ~Fixed /\ req.addr = 0) =>
        LET lower == FreeSpans(Max(FIRST_USER_ADDRESS, mmap_min_addr), mm_mmap_base)
            upper == FreeSpans(mm_mmap_base, TASK_SIZE)
        IN  /\ ret = OutOfMemory <=> (Oversize \/ (lower = {} /\ upper = {}))
            /\ (~Oversize /\ lower # {}) => ret \in lower
            /\ (~Oversize /\ lower = {} /\ upper # {}) => ret \in upper

\* C2 witness: the first search failed and the fallback search found room.
C2_FallbackFoundRoom ==
    /\ Returned /\ TopDown /\ ~Fixed /\ req.addr = 0
    /\ Len(calls) = 2
    /\ ~Failure(ret)
    /\ ret >= mm_mmap_base

C6_LayoutIsFunctionOfAttributes ==
    (pc # "exec") =>
        LET legacy == \/ "ADDR_COMPAT_LAYOUT" \in personality
                      \/ rlim_stack = RLIM_INFINITY
                      \/ sysctl_legacy_va_layout # 0
            clamp  == Max(MIN_GAP, IF rlim_stack < MAX_GAP THEN rlim_stack ELSE MAX_GAP)
        IN  /\ ~pf_randomize => random_factor = 0
            /\ random_factor \in {Pages(k) : k \in 0 .. (2 ^ mmap_rnd_bits) - 1}
            /\ IF legacy
               THEN /\ mm_mmap_base = TASK_UNMAPPED_BASE + random_factor
                    /\ BottomUp
               ELSE /\ mm_mmap_base = RoundUp(TASK_SIZE - clamp - random_factor, PAGE_SIZE)
                    /\ TopDown

\* C6 witness: a randomized top-down layout under a stack limit above MAX_GAP.
C6_RandomizedTopDownAtMaxGap ==
    /\ pc = "ready" /\ TopDown
    /\ rlim_stack > MAX_GAP
    /\ random_factor # 0

\* C7: with no hint, each finder returns the first fit in its own direction
\* whenever its primary range holds one: the bottom-up finder the lowest free
\* span in [max(mmap_base, mmap_min_addr), TASK_SIZE), the top-down finder the
\* highest one in [max(FIRST_USER_ADDRESS, mmap_min_addr), mmap_base).
C7_FirstFitInOwnDirection ==
    (Returned /\ ~Fixed /\ req.addr = 0) =>
        LET spans == IF BottomUp
                     THEN FreeSpans(Max(mm_mmap_base, mmap_min_addr), TASK_SIZE)
                     ELSE FreeSpans(Max(FIRST_USER_ADDRESS, mmap_min_addr),
                                    mm_mmap_base)
        IN  spans # {} =>
                /\ ret \in spans
                /\ \A b \in spans : IF BottomUp THEN ret <= b ELSE b <= ret

\* C7 witness: the top-down finder skipped a region abutting mmap_base and
\* answered below it.
C7_SkippedRegionAbuttingBase ==
    /\ Returned /\ TopDown /\ ~Fixed /\ req.addr = 0
    /\ ~Failure(ret)
    /\ \E v \in vmas : v.vm_end = mm_mmap_base /\ ret + req.len <= v.vm_start

\* C8 as stated: COLOUR_ALIGN is idempotent for every address and every page
\* offset.
C8_AlignIdempotent ==
    Len(al.outs) = 3 => al.outs[3] = al.outs[2]

\* C8 amended: COLOUR_ALIGN is idempotent for every address when the page
\* offset has colour zero; when the colour is not zero, applying it to its
\* own result adds one alignment unit (modulo the word).
C8_AlignIdempotentAtColourZero ==
    Len(al.outs) = 3 =>
        al.outs[3] = IF Colour(al.pgoff) = 0
                     THEN al.outs[2]
                     ELSE (al.outs[2] + SHMLBA) % ULONG_MOD

\* C8 witness: applied twice with a page offset of colour zero to an address
\* that is not a multiple of the unit.
C8_AlignedTwiceAtColourZero ==
    /\ Len(al.outs) = 3
    /\ Colour(al.pgoff) = 0
    /\ al.outs[1] % SHMLBA # 0
    /\ al.outs[3] = al.outs[2]

\* C9: the oversize test comes before the FIXED handling in both finders:
\* an oversize request fails with OutOfMemory whether or not it is FIXED,
\* and both finders give the same result for every request that is oversize
\* or FIXED.
C9_OversizeFirstInBoth ==
    (Returned /\ (Fixed \/ Oversize)) =>
        /\ Oversize => ret = OutOfMemory
        /\ ByBottomUp(req.addr).ret = ByTopDown(req.addr).ret

\* C10: for a non-FIXED, non-oversize call with a hint, let h be the hint
\* colour-aligned when alignment is required and else rounded up to a page
\* (in the word); if h >= mmap_min_addr, h + len <= TASK_SIZE and no region
\* ends above h or the first such region's guard-gap-adjusted start is at or
\* above h + len, the call returns h without a search; otherwise its result
\* is that of the same request with hint 0.
C10_HintPath ==
    (Returned /\ ~Fixed /\ ~Oversize /\ req.addr # 0) =>
        LET h == IF NeedsColour
                 THEN (RoundUp(req.addr, SHMLBA) + Colour(req.pgoff)) % ULONG_MOD
                 ELSE RoundUp(req.addr, PAGE_SIZE) % ULONG_MOD
            free == \A n \in vmas : IsNextRegion(n, h) => vm_start_gap(n) >= h + req.len
        IN  IF h >= mmap_min_addr /\ h + req.len <= TASK_SIZE /\ free
            THEN ret = h /\ calls = <<>>
            ELSE ret = ByFinder(0).ret /\ calls = ByFinder(0).calls

\* C10 witness: the bottom-up finder returned a hint below mmap_base, just
\* under the guard gap of the next region.
C10_HintBelowBaseAccepted ==
    /\ Returned /\ BottomUp /\ ~Fixed /\ req.addr # 0
    /\ calls = <<>>
    /\ ~Failure(ret)
    /\ ret >= req.addr
    /\ ret < mm_mmap_base
    /\ \E n \in vmas : /\ IsNextRegion(n, ret)
                       /\ "VM_GROWSDOWN" \in n.vm_flags
                       /\ vm_start_gap(n) = ret + req.len

=============================================================================
